---- MODULE Spec2Model ----
(***************************************************************************)
(* A model of the notch CHIP-8 interpreter: the Cpu of src/src/cpu.rs      *)
(* (registers, call stack, fetch/decode/execute) and the ram and display   *)
(* of src/src/interconnect.rs.                                             *)
(*                                                                         *)
(* One step of the model is one iteration of the loop of Cpu::run: the     *)
(* fetch of the word at pc and the whole of execute_instruction on it.     *)
(* A Rust panic (explicit panic!, or a failed bounds check of an index)    *)
(* ends the process: the model records it in `outcome` and takes no        *)
(* further step.                                                           *)
(***************************************************************************)
EXTENDS Integers, Naturals, Sequences, FiniteSets, TLC

VARIABLES
    pc,        \* Cpu.pc: u16
    sp,        \* Cpu.sp: u8
    stack,     \* Cpu.stack: [u16; 16], indexed 0..15
    v,         \* Cpu.v0 .. Cpu.vf, indexed 0..15
    i,         \* Cpu.i: u16
    dt,        \* Cpu.dt: u8
    st,        \* Cpu.st: u8
    ram,       \* Interconnect.ram: Vec<u8> of RAM_SIZE bytes
    display,   \* Interconnect.display: Vec<u8> of DISPLAY_SIZE bytes
    halt,      \* Interconnect.halt: bool
    depth,     \* number of activations of Cpu::run on the host call stack
    outcome,   \* "Running", or the panic that ended the process
    last,      \* history: the instruction the last step executed
    drawn,     \* history: the arguments of the latest call of draw, and the
               \* display it found
    calls      \* history: the pc of every CALL that pushed, in order

vars == <<pc, sp, stack, v, i, dt, st, ram, display, halt, depth, outcome,
          last, drawn, calls>>

----------------------------------------------------------------------------
(* Program constants.                                                      *)

INSTRUCTION_SIZE == 2
RAM_SIZE == 4096
FONT_OFFSET == 0
CHARACTER_SIZE == 5
CHARACTER_COUNT == 16
DISPLAY_WIDTH == 64
DISPLAY_HEIGHT == 32
DISPLAY_SIZE == DISPLAY_WIDTH * DISPLAY_HEIGHT
END_RESERVED == 512
STACK_SIZE == 16
DECIMAL_LENGTH == 3

(* Bound of the model: the number of instruction words of a pooled rom.    *)
MaxRomWords == 2

U16 == 65536

----------------------------------------------------------------------------
(* Bit arithmetic on u16 and u8, as the code's shifts compute it.          *)

RECURSIVE Pow2(_)
Pow2(n) == IF n = 0 THEN 1 ELSE 2 * Pow2(n - 1)

\* (w << n) on a u16: the bits shifted out are lost.
Shl16(w, n) == (w * Pow2(n)) % U16

\* (w >> n)
Shr(w, n) == w \div Pow2(n)

\* a | b on u8, bit by bit: a draw that sets pixels and never clears one.
RECURSIVE Or8(_, _)
Or8(a, b) ==
    IF a = 0 THEN b
    ELSE IF b = 0 THEN a
    ELSE (IF (a % 2) + (b % 2) > 0 THEN 1 ELSE 0) + 2 * Or8(a \div 2, b \div 2)

\* a ^ b on u8, bit by bit.
RECURSIVE Xor8(_, _)
Xor8(a, b) ==
    IF a = 0 THEN b
    ELSE IF b = 0 THEN a
    ELSE (((a % 2) + (b % 2)) % 2) + 2 * Xor8(a \div 2, b \div 2)

\* `x as u8`
AsU8(x) == x % 256

Opcode(instr) == AsU8(Shr(instr, 12))
RegX(instr) == AsU8(Shr(Shl16(instr, 4), 12))
RegY(instr) == AsU8(Shr(Shl16(instr, 8), 12))
Byte(instr) == AsU8(Shr(Shl16(instr, 8), 8))
\* The address field taken without the shift that drops the opcode nibble.
AddrUnmasked(instr) == instr

Addr(instr) == Shr(Shl16(instr, 4), 4)
Nibble(instr) == Shr(Shl16(instr, 12), 12)
Identifier(instr) == AsU8(Shr(Shl16(instr, 8), 8))

----------------------------------------------------------------------------
(* Interconnect.                                                           *)

Fonts ==
    << <<240, 144, 144, 144, 240>>,   \* 0
       <<32, 96, 32, 32, 112>>,       \* 1
       <<240, 16, 240, 128, 240>>,    \* 2
       <<240, 16, 240, 16, 240>>,     \* 3
       <<144, 144, 240, 16, 16>>,     \* 4
       <<240, 128, 240, 16, 240>>,    \* 5
       <<240, 128, 240, 144, 240>>,   \* 6
       <<240, 16, 32, 64, 64>>,       \* 7
       <<240, 144, 240, 144, 240>>,   \* 8
       <<240, 144, 240, 16, 240>>,    \* 9
       <<240, 144, 240, 144, 144>>,   \* A
       <<224, 144, 224, 144, 224>>,   \* B
       <<240, 128, 128, 128, 240>>,   \* C
       <<224, 144, 144, 144, 224>>,   \* D
       <<240, 128, 240, 128, 240>>,   \* E
       <<240, 128, 240, 128, 128>> >> \* F

\* dump_fonts with the characters CHARACTER_COUNT bytes apart.
DumpFontsMisplaced(mem) ==
    [a \in 0..(RAM_SIZE - 1) |->
        IF a < CHARACTER_COUNT * CHARACTER_COUNT /\ a % CHARACTER_COUNT < CHARACTER_SIZE
        THEN Fonts[(a \div CHARACTER_COUNT) + 1][(a % CHARACTER_COUNT) + 1]
        ELSE mem[a]]

\* dump_fonts: character c goes to FONT_OFFSET + c * CHARACTER_SIZE.
DumpFonts(mem) ==
    [a \in 0..(RAM_SIZE - 1) |->
        IF a >= FONT_OFFSET /\ a < FONT_OFFSET + CHARACTER_COUNT * CHARACTER_SIZE
        THEN Fonts[((a - FONT_OFFSET) \div CHARACTER_SIZE) + 1]
                  [((a - FONT_OFFSET) % CHARACTER_SIZE) + 1]
        ELSE mem[a]]

\* get_font
GetFont(font) == (FONT_OFFSET + font * CHARACTER_SIZE) % U16

\* Interconnect::new: the rom is copied to END_RESERVED, then the fonts are
\* dumped.  (The roms of the model fit the ram.)
NewRam(rom) ==
    DumpFonts([a \in 0..(RAM_SIZE - 1) |->
        IF a >= END_RESERVED /\ a < END_RESERVED + Len(rom)
        THEN rom[a - END_RESERVED + 1] ELSE 0])

\* A display that starts lit.
NewDisplayLit == [p \in 0..(DISPLAY_SIZE - 1) |-> 1]

NewDisplay == [p \in 0..(DISPLAY_SIZE - 1) |-> 0]

\* read_word: BigEndian::read_u16 of the slice ram[addr..]; it needs two
\* bytes there.
ReadWordOk(addr) == addr + 1 < RAM_SIZE
ReadWord(mem, addr) == mem[addr] * 256 + mem[addr + 1]

\* Bits taken without the mask: the byte shifted, not its lowest bit.
ValuesUnmasked(b) == [jj \in 0..7 |-> Shr(b, 7 - jj)]

\* The bits of one sprite byte, most significant first.
Values(b) == [jj \in 0..7 |-> Shr(b, 7 - jj) % 2]

\* The index of the display the code computes for bit j of sprite row r.
DrawIndex(x, y, r, j) ==
    LET line == y * DISPLAY_WIDTH
        offset == line + DISPLAY_WIDTH * r
        pos == x + j
    IN  IF pos > DISPLAY_WIDTH THEN offset + pos - DISPLAY_WIDTH
        ELSE offset + pos

\* A flag that tells of the latest pixel only.
CollideLatest(collision, prev, now) ==
    IF prev = 1 /\ now = 0 THEN 1 ELSE 0

\* The collision flag after a pixel went from prev to now.
Collide(collision, prev, now) ==
    IF prev = 1 /\ now = 0 THEN 1 ELSE collision

\* The inner loop of draw: bits j.. of sprite row r.  An index outside the
\* display panics and leaves the pixels written so far.
RECURSIVE DrawBits(_, _, _, _, _, _)
DrawBits(acc, x, y, byte, r, j) ==
    IF j >= 8 \/ ~acc.ok THEN acc
    ELSE LET value == Values(byte)[j]
             index == DrawIndex(x, y, r, j)
         IN  IF index >= DISPLAY_SIZE
             THEN [acc EXCEPT !.ok = FALSE]
             ELSE LET prev == acc.display[index]
                      now == Xor8(value, prev)
                  IN  DrawBits([display |-> [acc.display EXCEPT ![index] = now],
                                collision |-> Collide(acc.collision, prev, now),
                                ok |-> TRUE],
                               x, y, byte, r, j + 1)

\* The outer loop of draw: sprite rows r.. .
RECURSIVE DrawRows(_, _, _, _, _)
DrawRows(acc, x, y, sprite, r) ==
    IF r >= Len(sprite) \/ ~acc.ok THEN acc
    ELSE DrawRows(DrawBits(acc, x, y, sprite[r + 1], r, 0), x, y, sprite, r + 1)

\* draw: the display after it, the collision flag it returns, and whether
\* it returned at all.
Draw(disp, x, y, sprite) ==
    DrawRows([display |-> disp, collision |-> 0, ok |-> TRUE], x, y, sprite, 0)

\* clear_display
ClearDisplay(disp) == [p \in 0..(DISPLAY_SIZE - 1) |-> 0]

----------------------------------------------------------------------------
(* Cpu.                                                                    *)

GetReg(reg) == v[reg]

\* set_reg with the arm of VE writing VF.
SetRegWrongArm(reg, byte) == [v EXCEPT ![IF reg = 14 THEN 15 ELSE reg] = byte]

SetReg(reg, byte) == [v EXCEPT ![reg] = byte]

\* The sprite of DXYN: nibble bytes of ram from I on.
SpriteOk(nibble) == nibble = 0 \/ i + nibble - 1 < RAM_SIZE
Sprite(nibble) == [n \in 1..nibble |-> ram[i + n - 1]]

\* The digits of FX33: filled from the right while x > 0.
RECURSIVE DigitsFrom(_, _, _)
DigitsFrom(x, digits, digit_count) ==
    IF x > 0
    THEN DigitsFrom(x \div 10,
                    [digits EXCEPT ![DECIMAL_LENGTH - (digit_count + 1) + 1] = x % 10],
                    digit_count + 1)
    ELSE digits

\* Digits that skip the leading zeros: the first digit of x comes first.
DigitsLeftAligned(x) ==
    IF x >= 100 THEN <<x \div 100, (x \div 10) % 10, x % 10>>
    ELSE IF x >= 10 THEN <<x \div 10, x % 10, 0>>
    ELSE <<x, 0, 0>>

Digits(x) == DigitsFrom(x, <<0, 0, 0>>, 0)

\* The three writes of FX33, in order; the first index outside ram panics
\* and leaves the writes before it.
RECURSIVE StoreFrom(_, _, _, _)
StoreFrom(mem, base, digits, n) ==
    IF n > Len(digits) THEN [ram |-> mem, ok |-> TRUE]
    ELSE IF base + n - 1 >= RAM_SIZE THEN [ram |-> mem, ok |-> FALSE]
    ELSE StoreFrom([mem EXCEPT ![base + n - 1] = digits[n]], base, digits, n + 1)

Running == outcome = "Running" /\ depth >= 1

Instr == ReadWord(ram, pc)

NoLast == [op |-> "none", instr |-> 0]

\* What a step records of the instruction it executed.
Seen(op) == [op |-> op, instr |-> Instr]

NoDraw == [n |-> 0, x |-> 0, y |-> 0, sprite |-> <<>>, before |-> NewDisplay,
           ok |-> TRUE]

\* A pc that stays where it is after an instruction.
AdvanceNot(p) == p

\* The increment of pc behind the match of execute_instruction.
Advance(p) == p + INSTRUCTION_SIZE

\* The batches of events one poll of the event pump may return.
EventBatches ==
    {<<>>, <<"KeyDownOther">>, <<"Quit">>, <<"KeyDownEscape">>,
     <<"KeyDownOther", "Quit", "KeyDownOther">>}

\* handle_input: a Quit or an Escape key among the polled events sets halt.
\* The interconnect is a private field of the Cpu and run never returns, so
\* the host can call it (and clear_display) before it enters run only.
HandleInput ==
    /\ depth = 0
    /\ outcome = "Running"
    /\ \E events \in EventBatches :
           halt' = (halt \/ \E n \in DOMAIN events :
                                events[n] \in {"Quit", "KeyDownEscape"})
    /\ UNCHANGED <<pc, sp, stack, v, i, dt, st, ram, display, depth, outcome,
                   last, drawn, calls>>

\* clear_display, called by the host.
HostClear ==
    /\ depth = 0
    /\ outcome = "Running"
    /\ display' = ClearDisplay(display)
    /\ UNCHANGED <<pc, sp, stack, v, i, dt, st, ram, halt, depth, outcome,
                   last, drawn, calls>>

\* Cpu::run is entered by the host.
Run ==
    /\ depth = 0
    /\ outcome = "Running"
    /\ depth' = 1
    /\ UNCHANGED <<pc, sp, stack, v, i, dt, st, ram, display, halt, outcome, last, drawn, calls>>

\* read_word panics when fewer than two bytes are left at pc.
FetchPanic ==
    /\ Running
    /\ ~ReadWordOk(pc)
    /\ outcome' = "PanicReadWord"
    /\ last' = [NoLast EXCEPT !.op = "fetch"]
    /\ UNCHANGED <<pc, sp, stack, v, i, dt, st, ram, display, halt, depth, drawn, calls>>

\* 6XNN - LD VX, NN
ExecLD ==
    /\ Running
    /\ ReadWordOk(pc)
    /\ Opcode(Instr) = 6
    /\ v' = SetReg(RegX(Instr), Byte(Instr))
    /\ pc' = Advance(pc)
    /\ last' = Seen("LD")
    /\ UNCHANGED <<sp, stack, i, dt, st, ram, display, halt, depth, outcome, drawn, calls>>

\* ANNN - LD I, NNN
ExecLDI ==
    /\ Running
    /\ ReadWordOk(pc)
    /\ Opcode(Instr) = 10
    /\ i' = Addr(Instr)
    /\ pc' = Advance(pc)
    /\ last' = Seen("LDI")
    /\ UNCHANGED <<sp, stack, v, dt, st, ram, display, halt, depth, outcome, drawn, calls>>

\* DXYN - DRW VX, VY, N
ExecDRW ==
    /\ Running
    /\ ReadWordOk(pc)
    /\ Opcode(Instr) = 13
    /\ LET regx == RegX(Instr)
           regy == RegY(Instr)
           nibble == Nibble(Instr)
       IN  IF ~SpriteOk(nibble)
           THEN /\ outcome' = "PanicRamIndex"
                /\ UNCHANGED <<pc, v, display, drawn>>
           ELSE LET x == GetReg(regx)
                    y == GetReg(regy)
                    res == Draw(display, x, y, Sprite(nibble))
                IN  /\ display' = res.display
                    /\ drawn' = [n |-> drawn.n + 1, x |-> x, y |-> y,
                                  sprite |-> Sprite(nibble), before |-> display,
                                  ok |-> res.ok]
                    /\ IF res.ok
                       THEN /\ v' = [v EXCEPT ![15] = res.collision]
                            /\ pc' = Advance(pc)
                            /\ UNCHANGED outcome
                       ELSE /\ outcome' = "PanicDisplayIndex"
                            /\ UNCHANGED <<pc, v>>
    /\ last' = Seen("DRW")
    /\ UNCHANGED <<sp, stack, i, dt, st, ram, halt, depth, calls>>

\* A CALL that pushes the address of the instruction behind it.
CallPushedNext(p) == p + INSTRUCTION_SIZE

\* The address a CALL pushes: the pc of the CALL itself.
CallPushed(p) == p

\* A CALL that falls through to the increment of pc behind the match.
CallTargetAdvanced(instr) == Addr(instr) + INSTRUCTION_SIZE

\* The pc a CALL leaves: the address of the instruction, and no increment.
CallTarget(instr) == Addr(instr)

\* 2NNN - CALL NNN.  The handler pushes pc, sets pc and enters run again:
\* the steps that follow are iterations of that inner loop, which has no way
\* to return (execute_instruction returns false or panics), so neither the
\* panic!("unhandled") behind the call nor the increment of pc is reached.
ExecCALL ==
    /\ Running
    /\ ReadWordOk(pc)
    /\ Opcode(Instr) = 2
    /\ last' = Seen("CALL")
    /\ IF sp >= STACK_SIZE
       THEN /\ outcome' = "PanicStackIndex"
            /\ UNCHANGED <<pc, sp, stack, depth, calls>>
       ELSE /\ stack' = [stack EXCEPT ![sp] = CallPushed(pc)]
            /\ calls' = Append(calls, pc)
            /\ sp' = sp + 1
            /\ pc' = CallTarget(Instr)
            /\ depth' = depth + 1
            /\ UNCHANGED outcome
    /\ UNCHANGED <<v, i, dt, st, ram, display, halt, drawn>>

\* FX33 - LD B, VX
ExecLDB ==
    /\ Running
    /\ ReadWordOk(pc)
    /\ Opcode(Instr) = 15
    /\ Identifier(Instr) = 51
    /\ LET res == StoreFrom(ram, i, Digits(GetReg(RegX(Instr))), 1)
       IN  /\ ram' = res.ram
           /\ IF res.ok
              THEN /\ pc' = Advance(pc)
                   /\ UNCHANGED outcome
              ELSE /\ outcome' = "PanicRamIndex"
                   /\ UNCHANGED pc
    /\ last' = Seen("LDB")
    /\ UNCHANGED <<sp, stack, v, i, dt, st, display, halt, depth, drawn, calls>>

\* FXkk with no handler: panic!("Found unknown identifier ...")
ExecUnknownIdentifier ==
    /\ Running
    /\ ReadWordOk(pc)
    /\ Opcode(Instr) = 15
    /\ Identifier(Instr) # 51
    /\ outcome' = "PanicUnknownIdentifier"
    /\ last' = Seen("unknown")
    /\ UNCHANGED <<pc, sp, stack, v, i, dt, st, ram, display, halt, depth, drawn, calls>>

\* Any other opcode: panic!("Found unknown opcode ...")
ExecUnknownOpcode ==
    /\ Running
    /\ ReadWordOk(pc)
    /\ Opcode(Instr) \notin {2, 6, 10, 13, 15}
    /\ outcome' = "PanicUnknownOpcode"
    /\ last' = Seen("unknown")
    /\ UNCHANGED <<pc, sp, stack, v, i, dt, st, ram, display, halt, depth, drawn, calls>>

----------------------------------------------------------------------------
(* The roms the machine is constructed with.                               *)

Word(w) == <<w \div 256, w % 256>>

RECURSIVE Flatten(_)
Flatten(ws) == IF ws = <<>> THEN <<>> ELSE Word(Head(ws)) \o Flatten(Tail(ws))

\* Instruction words the pooled programs are made of.
Pool ==
    { 24639,   \* 603F  V0 := 63
      24863,   \* 611F  V1 := 31
      28677,   \* 7005  no handler
      41473,   \* A201  I := 0x201
      45054,   \* AFFE  I := 0xFFE
      53265,   \* D011  draw 1 row at (V0, V1)
      53269,   \* D015  draw 5 rows at (V0, V1)
      8704,    \* 2200  call 0x200
      61491,   \* F033  digits of V0
      61541 }  \* F065  no handler

RECURSIVE SeqsUpTo(_, _)
SeqsUpTo(S, n) ==
    IF n = 0 THEN {<<>>}
    ELSE LET shorter == SeqsUpTo(S, n - 1)
         IN  shorter \cup {Append(q, e) : q \in {t \in shorter : Len(t) = n - 1}, e \in S}

\* Every program of at most MaxRomWords words of the pool.
PooledPrograms == SeqsUpTo(Pool, MaxRomWords)

Bytes == {0, 1, 7, 9, 10, 63, 64, 99, 100, 127, 128, 200, 254, 255}
Addrs == {0, 1, 80, 511, 512, 513, 514, 2047, 2048, 4093, 4094, 4095}

\* One instruction: every 6XNN and FXkk over Bytes, every ANNN and 2NNN over
\* Addrs, and words of every other opcode.
SingleWordPrograms ==
    {<<6 * 4096 + x * 256 + nn>> : x \in 0..15, nn \in Bytes}
    \cup {<<10 * 4096 + nnn>> : nnn \in Addrs}
    \cup {<<2 * 4096 + nnn>> : nnn \in Addrs}
    \cup {<<op * 4096 + nnn>> : op \in 0..15 \ {2, 6, 10, 13, 15}, nnn \in {0, 224, 238, 563, 4095}}
    \cup {<<15 * 4096 + x * 256 + kk>> : x \in {0, 7, 15}, kk \in Bytes \cup {21, 30, 41, 50, 51, 52, 85, 101}}

\* Vx := a; I := nnn; FX33, for every byte a.
BcdPrograms ==
    {<<6 * 4096 + x * 256 + a, 10 * 4096 + nnn, 15 * 4096 + x * 256 + 51>> :
        x \in {0, 15}, a \in 0..255, nnn \in {768}}
    \cup {<<6 * 4096 + 5 * 256 + a, 10 * 4096 + nnn, 15 * 4096 + 5 * 256 + 51>> :
        a \in {0, 7, 255}, nnn \in {0, 516, 4093, 4094, 4095}}

\* The sprite rows the draw programs carry behind their code.
SpriteData == <<65409, 6375, 61695, 43605, 65535, 255, 33023, 65280>>

\* An optional first draw of the font table at (0, 0); then V0 := a; V1 := b;
\* I := the first byte behind the code; and two draws of n rows at (V0, V1),
\* or of one row at (V1, VF).
DrawProgram(pre, a, b, d) ==
    pre \o <<6 * 4096 + a, 6 * 4096 + 256 + b,
             10 * 4096 + END_RESERVED + INSTRUCTION_SIZE * (Len(pre) + 5), d, d>>
        \o SpriteData

DrawPrograms ==
    {DrawProgram(pre, a, b, d) :
        pre \in {<<>>, <<13 * 4096 + 15>>},
        a \in {0, 1, 56, 57, 60, 63, 64, 255},
        b \in {0, 1, 30, 31, 32, 255},
        d \in {13 * 4096 + 16 + n : n \in {0, 1, 2, 15}} \cup {13 * 4096 + 497}}

Programs == PooledPrograms \cup SingleWordPrograms \cup BcdPrograms \cup DrawPrograms

Roms == {Flatten(ws) : ws \in Programs}

Init ==
    /\ \E rom \in Roms : ram = NewRam(rom)
    /\ display = NewDisplay
    /\ halt = FALSE
    /\ pc = END_RESERVED
    /\ stack = [k \in 0..(STACK_SIZE - 1) |-> 0]
    /\ sp = 0
    /\ v = [r \in 0..15 |-> 0]
    /\ i = 0
    /\ dt = 0
    /\ st = 0
    /\ depth = 0
    /\ outcome = "Running"
    /\ last = NoLast
    /\ drawn = NoDraw
    /\ calls = <<>>

Next ==
    \/ HandleInput
    \/ HostClear
    \/ Run
    \/ FetchPanic
    \/ ExecLD
    \/ ExecLDI
    \/ ExecDRW
    \/ ExecCALL
    \/ ExecLDB
    \/ ExecUnknownIdentifier
    \/ ExecUnknownOpcode

Spec == Init /\ [][Next]_vars

----------------------------------------------------------------------------
(* Properties.                                                             *)

\* The loop of run is about to fetch and execute a word of primary opcode op.
Executes(op) == Running /\ ReadWordOk(pc) /\ Instr \div 4096 = op

\* The process has been ended by a panic.
Terminated == outcome # "Running"

\* C1: from SP = 0, sixteen nested CALLs succeed, and a CALL executed with
\* SP = 16 gives a StackOverflow error outcome, without a write outside the
\* stack and without a change of any other state.
C1_CallStackBounds ==
    [][Executes(2) =>
          IF sp < STACK_SIZE
          THEN outcome' = "Running" /\ sp' = sp + 1
          ELSE /\ outcome' = "StackOverflow"
               /\ UNCHANGED <<pc, sp, stack, v, i, dt, st, ram, display>>]_vars

\* C2: CALL NNN executed at pc = P with sp = S < 16 is one transition to
\* stack[S] = P, sp = S + 1, pc = NNN (and not NNN + 2), nothing else of the
\* machine changes, and the process is not ended.
C2_CallTransition ==
    [][(Executes(2) /\ sp < STACK_SIZE) =>
          /\ stack' = [stack EXCEPT ![sp] = pc]
          /\ sp' = sp + 1
          /\ pc' = Instr % 4096
          /\ outcome' = "Running"
          /\ UNCHANGED <<v, i, dt, st, ram, display>>]_vars

\* C2 witness: the CALL 0x202 at 0x200 has been executed.
C2_Witness ==
    /\ last = [op |-> "CALL", instr |-> 8706]
    /\ outcome = "Running"
    /\ sp = 1
    /\ stack[0] = 512
    /\ pc = 514

\* A word no handler exists for.
NoHandler(instr) ==
    \/ instr \div 4096 \notin {2, 6, 10, 13, 15}
    \/ instr \div 4096 = 15 /\ instr % 256 # 51

\* C3: a word without a handler gives an UnsupportedOpcode error outcome,
\* the machine is not terminated, and pc, sp, the stack, V0..VF, I, DT, ST,
\* ram and the display are unchanged.
C3_UnsupportedOpcode ==
    [][(Running /\ ReadWordOk(pc) /\ NoHandler(Instr)) =>
          /\ outcome' = "UnsupportedOpcode"
          /\ ~Terminated'
          /\ UNCHANGED <<pc, sp, stack, v, i, dt, st, ram, display>>]_vars

\* A DXYN whose sprite lies inside ram is about to be executed.
Draws == Executes(13) /\ SpriteOk(Instr % 16)

\* The registers DXYN takes its coordinates from, and its sprite.
Vx == v[(Instr \div 256) % 16]
Vy == v[(Instr \div 16) % 16]
Rows == [r \in 0..((Instr % 16) - 1) |-> ram[i + r]]

\* Bit c of a byte, the most significant bit being bit 0.
BitOf(byte, c) == (byte \div Pow2(7 - c)) % 2

\* C4: the pixel XORed with bit c of sprite row r is the one at row
\* (Vy + r) mod 32 and column (Vx + c) mod 64, for every Vx and Vy.
C4_WrapsBothAxes ==
    [][Draws =>
          \A r \in DOMAIN Rows, c \in 0..7 :
              LET p == ((Vy + r) % DISPLAY_HEIGHT) * DISPLAY_WIDTH
                           + ((Vx + c) % DISPLAY_WIDTH)
              IN  display'[p] = (display[p] + BitOf(Rows[r], c)) % 2]_vars

\* C5: draw raises no error because of its coordinates: for every x, y and
\* sprite the DXYN completes.
C5_DrawNeverFails ==
    [][Draws => (outcome' = "Running" /\ pc' = pc + INSTRUCTION_SIZE)]_vars

\* Some pixel of the display went from 1 to 0 in this step.
Erased == \E p \in DOMAIN display : display[p] = 1 /\ display'[p] = 0

\* C6: after a DXYN, VF = 1 if a pixel went from 1 to 0 in the draw, whichever
\* row of the sprite it was in, and VF = 0 otherwise.
C6_VfIsCollision ==
    [][(Draws /\ outcome' = "Running") =>
          v' = [v EXCEPT ![15] = IF Erased THEN 1 ELSE 0]]_vars

\* C6 witness: the second draw of the row 0xFF at (0, 0) has cleared the
\* display again and set VF; the first one had found the display empty.
C6_Witness ==
    /\ last.op = "DRW"
    /\ outcome = "Running"
    /\ drawn.n = 2
    /\ drawn.sprite = <<255>>
    /\ drawn.x = 0 /\ drawn.y = 0
    /\ \A c \in 0..7 : drawn.before[c] = 1
    /\ display = NewDisplay
    /\ v[15] = 1

\* This DXYN draws what the latest draw drew, where it drew it.
DrawsAgain ==
    /\ Draws
    /\ drawn.n >= 1
    /\ drawn.ok
    /\ drawn.x = Vx /\ drawn.y = Vy
    /\ Len(drawn.sprite) = Instr % 16
    /\ \A r \in DOMAIN Rows : drawn.sprite[r + 1] = Rows[r]

\* C7: the second of two draws of one sprite at one place leaves the display
\* as it was before the first, and reports a collision if the first turned a
\* pixel on.
C7_DoubleDraw ==
    [][(DrawsAgain /\ outcome' = "Running") =>
          /\ display' = drawn.before
          /\ (\E p \in DOMAIN display : drawn.before[p] = 0 /\ display[p] = 1)
                 => v'[15] = 1]_vars

\* C7 witness: two draws of 15 rows at (60, 1) on the display the font table
\* had been drawn to; the display is that one again.
C7_Witness ==
    /\ last.op = "DRW"
    /\ outcome = "Running"
    /\ drawn.n = 3
    /\ Len(drawn.sprite) = 15
    /\ drawn.x = 60 /\ drawn.y = 1
    /\ drawn.before # display
    /\ display # NewDisplay
    /\ v[15] = 1

C9_LoadByte ==
    [][Executes(6) =>
          /\ v'[(Instr \div 256) % 16] = Instr % 256
          /\ \A r \in 0..15 : r # (Instr \div 256) % 16 => v'[r] = v[r]]_vars

\* C9 witness: 611F has been executed after 603F.
C9_Witness ==
    /\ last = [op |-> "LD", instr |-> 24863]
    /\ v[1] = 31
    /\ v[0] = 63

\* C10: after ANNN, I = NNN, without the opcode nibble; I is at most 0xFFF
\* at all times.
C10_LoadIndex ==
    /\ [](i <= 4095)
    /\ [][Executes(10) => i' = Instr % 4096]_vars

\* C10 witness: AFFF has been executed.
C10_Witness ==
    /\ last = [op |-> "LDI", instr |-> 45055]
    /\ i = 4095

\* The machine has been constructed and run has not been entered.
Constructed == depth = 0

\* C11: after construction, with any rom, the glyph of digit d is the five
\* bytes of ram from get_font(d) = 5 * d on; digit A is at 50 and is
\* F0 90 F0 90 90.
C11_FontTable ==
    Constructed =>
        /\ \A d \in 0..15 :
              /\ GetFont(d) = 5 * d
              /\ \A k \in 0..4 : ram[5 * d + k] = Fonts[d + 1][k + 1]
        /\ GetFont(10) = 50
        /\ <<ram[50], ram[51], ram[52], ram[53], ram[54]>> = <<240, 144, 240, 144, 144>>

\* C11 witness: a machine constructed with the rom 22 00.
C11_Witness ==
    /\ Constructed
    /\ ram[512] = 34 /\ ram[513] = 0
    /\ ram[50] = 240 /\ ram[54] = 144
    /\ ram[79] = 128

\* C12: with halt set, the loop of run fetches and executes nothing more:
\* its next step is its return to the host, and the process is not ended.
C12_HaltStopsTheLoop ==
    [][(halt /\ Running) =>
          /\ depth' < depth
          /\ outcome' = "Running"
          /\ UNCHANGED <<pc, sp, stack, v, i, dt, st, ram, display, last>>]_vars

\* The word about to be executed is a 6XNN, ANNN, DXYN or FX33.
ExecutesPlain ==
    \/ Executes(6)
    \/ Executes(10)
    \/ Executes(13)
    \/ Executes(15) /\ Instr % 256 = 51

\* C13: a 6XNN, ANNN, DXYN or FX33 that completes leaves pc two higher and
\* sp and the stack as they were.
C13_PcAdvancesByTwo ==
    [][(ExecutesPlain /\ outcome' = "Running") =>
          (pc' = pc + 2 /\ UNCHANGED <<sp, stack>>)]_vars

\* C13 witness: the 603F at 0x200 has been executed a second time, inside
\* the CALL 0x200 behind it.
C13_Witness ==
    /\ last = [op |-> "LD", instr |-> 24639]
    /\ outcome = "Running"
    /\ sp = 1
    /\ stack[0] = 514
    /\ pc = 514

\* C14: the word fetched is ram[pc] * 256 + ram[pc + 1]; with pc + 1 beyond
\* 0xFFF the fetch gives an OutOfBounds error outcome, the machine is not
\* terminated, and no instruction is executed.
C14_Fetch ==
    [][Running =>
          IF pc + 1 <= 4095
          THEN last'.instr = ram[pc] * 256 + ram[pc + 1]
          ELSE /\ outcome' = "OutOfBounds"
               /\ ~Terminated'
               /\ UNCHANGED <<pc, sp, stack, v, i, dt, st, ram, display>>]_vars

\* A DXYN or an FX33 whose access to ram leaves the address space.
AccessesOutside ==
    \/ Executes(13) /\ i + (Instr % 16) > 4096
    \/ Executes(15) /\ Instr % 256 = 51 /\ i + 2 > 4095

\* C15: a DXYN with I + N > 0x1000 and an FX33 with I + 2 > 0xFFF give an
\* OutOfBounds error outcome, the machine is not terminated, and ram, the
\* display and the registers keep their values.
C15_DataOutOfBounds ==
    [][AccessesOutside =>
          /\ outcome' = "OutOfBounds"
          /\ ~Terminated'
          /\ UNCHANGED <<ram, display, v, i, pc, sp, stack, dt, st>>]_vars

\* C16: pc is even and within [0x200, 0xFFF] in every reachable state.
C16_PcInvariant ==
    /\ pc % 2 = 0
    /\ pc >= 512
    /\ pc <= 4095

\* C17: a CALL with SP < 16 leaves the nesting of the loop of run as it was
\* and ends nothing: the loop that fetches at NNN is the one that fetched
\* the CALL.
C17_FlatLoop ==
    [][(Executes(2) /\ sp < STACK_SIZE) =>
          (depth' = depth /\ outcome' = "Running")]_vars

\* C18: the display has 64 * 32 pixels, all 0 when the machine is
\* constructed, and no step but a draw or a clear changes one.
C18_DisplayFrame ==
    /\ \A p \in 0..2047 : display[p] = 0
    /\ [](DOMAIN display = 0..2047)
    /\ [][display' # display =>
             \/ Executes(13)
             \/ Constructed /\ \A p \in 0..2047 : display'[p] = 0]_vars
    /\ [][(Executes(6) \/ Executes(10) \/ Executes(2) \/ Executes(15)) =>
             display' = display]_vars

\* C18 witness: an FX33 has been executed on a display a draw had lit.
C18_Witness ==
    /\ last.op = "LDB"
    /\ outcome = "Running"
    /\ drawn.n >= 1
    /\ \E p \in DOMAIN display : display[p] = 1

\* C19: every pixel of the display is 0 or 1 in every reachable state.
C19_PixelsAreBits == \A p \in DOMAIN display : display[p] \in {0, 1}

\* C19 witness: two draws of the rows FF 81 at (1, 1) on the display the
\* font table had been drawn to.
C19_Witness ==
    /\ last.op = "DRW"
    /\ drawn.n = 3
    /\ drawn.sprite = <<255, 129>>
    /\ drawn.x = 1 /\ drawn.y = 1
    /\ display[0] = 1
    /\ display[4] = 0

\* C20: sp is the number of CALLs executed and never decreases; stack[k]
\* is the address of the k-th CALL itself for k < sp, and 0 for k >= sp.
C20_StackHistory ==
    /\ [](sp = Len(calls))
    /\ [](\A k \in 0..(STACK_SIZE - 1) :
             stack[k] = IF k < sp THEN calls[k + 1] ELSE 0)
    /\ [][sp' >= sp]_vars
    /\ [][(Executes(2) /\ outcome' = "Running") =>
             (sp' = sp + 1 /\ stack'[sp] = pc /\ ram[stack'[sp]] \div 16 = 2)]_vars

\* C20 witness: the CALL 0x200 at 0x202 has been executed twice.
C20_Witness ==
    /\ last.op = "CALL"
    /\ sp = 2
    /\ stack[0] = 514 /\ stack[1] = 514
    /\ stack[2] = 0
    /\ pc = 512

====
